---- MODULE Spec2Model ----
(***************************************************************************)
(* Model of McWorld (src/rust/src/lib.rs): the palette registry, the chunk *)
(* store, read_region and convert.                                         *)
(*                                                                         *)
(* Strings the program inspects character by character (block names, glob  *)
(* patterns, output keys) are sequences of one-character strings.          *)
(* Option<T> is a sequence of length 0 (None) or 1 (Some(v)).              *)
(***************************************************************************)
EXTENDS Integers, Sequences, FiniteSets, TLC

\* ------------------------------------------------------------------ bounds
\* Edge of a chunk in blocks (16 in the source), scaled down.
CHUNK_W == 2
\* Cells of a chunk column (HEIGHT, 384 in the source), scaled down.
HEIGHT == 2
\* Edge of a region in chunks (32 in the source), scaled down.
REGION_W == 2
\* Number of calls made on one McWorld.
MaxCalls == 2

\* Number of values of the u16 that holds a palette id or a target id (65536
\* in the source), scaled down so that a world can hold more names than ids.
U16_MOD == 4

None == <<>>
Some(v) == <<v>>
IsSome(o) == Len(o) = 1
Unwrap(o) == o[1]

\* ------------------------------------------------------------- block names
NS == <<"m", "i", "n", "e", "c", "r", "a", "f", "t", ":">>
Air == NS \o <<"a", "i", "r">>
Stone == NS \o <<"s", "t", "o", "n", "e">>
Dirt == NS \o <<"d", "i", "r", "t">>
Sand == NS \o <<"s", "a", "n", "d">>
Gravel == NS \o <<"g", "r", "a", "v", "e", "l">>
Grass == NS \o <<"g", "r", "a", "s", "s">>

\* ------------------------------------------------------------ chunk layout
NCells == CHUNK_W * HEIGHT * CHUNK_W

\* Decomposition of the cell index i (0-based) into local coordinates.
CellZ(i) == i \div (CHUNK_W * HEIGHT)
CellY(i) == (i % (CHUNK_W * HEIGHT)) \div CHUNK_W
CellX(i) == (i % (CHUNK_W * HEIGHT)) % CHUNK_W

\* u16 conversion of a length (`as u16`).
AsU16(n) == n % U16_MOD

\* ---------------------------------------------------- codec (fastanvil) data
\* What complete::Chunk::block(x, y, z) answers for a decoded chunk: a
\* function from local coordinates to Option<name>.
Locals == (0 .. CHUNK_W - 1) \X (0 .. HEIGHT - 1) \X (0 .. CHUNK_W - 1)

\* `first` at local (0,0,0), `rest` in the other cells below `top`, no block
\* at or above `top`.
ChunkOf(first, rest, top) ==
    [l \in Locals |->
        IF l[2] >= top THEN None
        ELSE IF l = <<0, 0, 0>> THEN Some(first) ELSE Some(rest)]

StoneCorner == ChunkOf(Stone, Air, HEIGHT)
AirStone == ChunkOf(Air, Stone, HEIGHT)
DirtLow == ChunkOf(Dirt, Stone, 1)
StoneLow == ChunkOf(Stone, Air, 1)
Unresolved == ChunkOf(Air, Air, 0)
\* Six names in turn along the cell index.
Variety ==
    [l \in Locals |->
        Some(<<Stone, Dirt, Sand, Gravel, Grass, Air>>
               [(((l[3] * HEIGHT + l[2]) * CHUNK_W + l[1]) % 6) + 1])]

\* A chunk slot of a region file: unallocated, unreadable (read_chunk fails),
\* allocated with bytes that do not decode, or allocated and well-formed.
Absent == [kind |-> "absent"]
Unreadable == [kind |-> "unreadable"]
Corrupt == [kind |-> "corrupt"]
Payload(c) == [kind |-> "chunk", block |-> c]

Slots == (0 .. REGION_W - 1) \X (0 .. REGION_W - 1)
\* Slots in the order of the two nested loops: x outer, z inner.
NSlots == REGION_W * REGION_W
SlotAt(k) == <<k \div REGION_W, k % REGION_W>>

\* The bytes handed to read_region: either not a region container, or a
\* region with one slot value per position.
Garbage == [parses |-> FALSE]
RegionFile(f) == [parses |-> TRUE, slot |-> f]

Single(c) == RegionFile([s \in Slots |-> IF s = <<0, 0>> THEN Payload(c) ELSE Absent])
Full(c, d) == RegionFile([s \in Slots |-> IF s = <<0, 0>> THEN Payload(c) ELSE Payload(d)])
Broken(c, bad, d) ==
    RegionFile([s \in Slots |->
        IF s = <<0, 0>> THEN Payload(c)
        ELSE IF s = <<0, 1>> THEN bad ELSE Payload(d)])
Vacant == RegionFile([s \in Slots |-> Absent])

\* The region files read_region is given, by name.
Bytes(file) ==
    CASE file = "garbage" -> Garbage
      [] file = "vacant" -> Vacant
      [] file = "stone_corner" -> Single(StoneCorner)
      [] file = "unresolved" -> Single(Unresolved)
      [] file = "full" -> Full(AirStone, DirtLow)
      [] file = "corrupt" -> Broken(StoneCorner, Corrupt, AirStone)
      [] file = "unreadable" -> Broken(StoneLow, Unreadable, AirStone)
      [] file = "gap" -> Broken(DirtLow, Absent, StoneCorner)
      [] file = "variety" -> Single(Variety)

Files == {"garbage", "vacant", "stone_corner", "unresolved", "full", "corrupt",
          "unreadable", "gap", "variety"}

NoBounds == <<None, None>>
\* The arguments of read_region: region_pos, <<min_chunk_pos, max_chunk_pos>>
\* and the file.
ReadArgs ==
    ({<<0, 0>>} \X {NoBounds} \X Files)
    \cup ({<<0, 0>>}
          \X {<<Some(<<1, 0>>), None>>, <<None, Some(<<1, 0>>)>>,
              <<Some(<<0, 1>>), Some(<<0, 1>>)>>}
          \X {"full", "corrupt", "gap"})
    \cup ({<<-1, 0>>} \X {NoBounds, <<Some(<<-1, 0>>), Some(<<0, 0>>)>>}
          \X {"full", "stone_corner"})

VARIABLES
    palette_index,  \* McWorld.palette_index: name -> id
    palette,        \* McWorld.palette: sequence of names, id i at position i+1
    chunks,         \* McWorld.chunks: <<x, z>> -> sequence of NCells ids
    before,         \* the McWorld as the last call found it
    call,           \* the last call made and its arguments
    result,         \* how the last call ended: "ok", "err" or "panic"
    terrain,        \* the object the last convert returned (key -> target id)
    written,        \* the Reflect::set calls the last convert made, in order
    calls,          \* number of calls made
    ingested        \* <<x, z>> -> the decoded chunk its stored array was built from

vars == <<palette_index, palette, chunks, before, call, result, terrain, written, calls,
          ingested>>

\* McWorld::new
Init ==
    /\ palette_index = <<>>
    /\ palette = <<>>
    /\ chunks = <<>>
    /\ before = [palette_index |-> <<>>, palette |-> <<>>, chunks |-> <<>>]
    /\ call = [op |-> "new"]
    /\ result = "ok"
    /\ terrain = <<>>
    /\ written = <<>>
    /\ calls = 0
    /\ ingested = <<>>

\* ------------------------------------------------------------- read_region
World(pi, p, c) == [palette_index |-> pi, palette |-> p, chunks |-> c]

\* HashMap::insert: the entry of k is created or replaced.
Put(f, k, v) == (k :> v) @@ f

\* A variant of GetOrCreate that numbers the names from 1.
GetOrCreateFromOne(w, name) ==
    IF name \in DOMAIN w.palette_index
    THEN [w |-> w, palette_index |-> w.palette_index[name]]
    ELSE LET idx == AsU16(Len(w.palette) + 1)
         IN [w |-> World(Put(w.palette_index, name, idx),
                         Append(w.palette, name), w.chunks),
             palette_index |-> idx]

\* Lines 144-153: look the name up, or append it with the next id.
GetOrCreate(w, name) ==
    IF name \in DOMAIN w.palette_index
    THEN [w |-> w, palette_index |-> w.palette_index[name]]
    ELSE LET idx == AsU16(Len(w.palette))
         IN [w |-> World(Put(w.palette_index, name, idx),
                         Append(w.palette, name), w.chunks),
             palette_index |-> idx]

\* Line 155: the id r.palette_index is stored at the cell of index a.i.
Stored(a, r) ==
    [w |-> r.w, block_data |-> [a.block_data EXCEPT ![a.i + 1] = r.palette_index],
     i |-> a.i + 1]

\* Lines 133-155: one iteration of the cell loop; a is the state of the loop
\* (the world, the array block_data and the index i) before it.
PaletteCell(a, chunk) ==
    LET chunk_z == CellZ(a.i)
        chunk_y == CellY(a.i)
        chunk_x == CellX(a.i)
        block == chunk[<<chunk_x, chunk_y, chunk_z>>]
    IN IF ~IsSome(block) THEN [a EXCEPT !.i = @ + 1]
       ELSE Stored(a, GetOrCreate(a.w, Unwrap(block)))

\* Lines 132-156: the cell loop, from the state a on.
RECURSIVE PaletteCells(_, _)
PaletteCells(a, chunk) ==
    IF a.i >= NCells THEN a ELSE PaletteCells(PaletteCell(a, chunk), chunk)

\* A variant of OutOfBounds that compares the chunk z with the x of the bounds.
OutOfBoundsSameField(global_chunk_x, global_chunk_z, min_chunk_pos, max_chunk_pos) ==
    \/ (IsSome(min_chunk_pos) /\ global_chunk_x < Unwrap(min_chunk_pos)[1])
    \/ (IsSome(max_chunk_pos) /\ global_chunk_x > Unwrap(max_chunk_pos)[1])
    \/ (IsSome(min_chunk_pos) /\ global_chunk_z < Unwrap(min_chunk_pos)[1])
    \/ (IsSome(max_chunk_pos) /\ global_chunk_z > Unwrap(max_chunk_pos)[1])

\* Lines 90-108: the chunk is outside the bounds on the x axis or on the z axis.
OutOfBounds(global_chunk_x, global_chunk_z, min_chunk_pos, max_chunk_pos) ==
    \/ (IsSome(min_chunk_pos) /\ global_chunk_x < Unwrap(min_chunk_pos)[1])
    \/ (IsSome(max_chunk_pos) /\ global_chunk_x > Unwrap(max_chunk_pos)[1])
    \/ (IsSome(min_chunk_pos) /\ global_chunk_z < Unwrap(min_chunk_pos)[2])
    \/ (IsSome(max_chunk_pos) /\ global_chunk_z > Unwrap(max_chunk_pos)[2])

\* A variant of Insert that keeps no other entry of the chunk store.
InsertAlone(a, pos) ==
    World(a.w.palette_index, a.w.palette, pos :> a.block_data)

\* Lines 161-167: the array of a finished cell loop is inserted at pos.
Insert(a, pos) ==
    World(a.w.palette_index, a.w.palette, Put(a.w.chunks, pos, a.block_data))

\* A variant of StoreChunk that starts from the array already stored at pos,
\* when there is one, instead of a fresh one.
StoreChunkMerged(w, pos, chunk) ==
    Insert(PaletteCells([w |-> w,
                         block_data |-> IF pos \in DOMAIN w.chunks THEN w.chunks[pos]
                                        ELSE [c \in 1 .. NCells |-> 0],
                         i |-> 0], chunk), pos)

\* Lines 128-167: a decoded chunk is paletted and inserted at its coordinate.
StoreChunk(w, pos, chunk) ==
    Insert(PaletteCells([w |-> w, block_data |-> [c \in 1 .. NCells |-> 0],
                         i |-> 0], chunk), pos)

\* A variant of Slot that passes over a payload that does not decode.
SlotSkipsCorrupt(st, region_pos, min_chunk_pos, max_chunk_pos, file) ==
    LET x == SlotAt(st.k)[1]
        z == SlotAt(st.k)[2]
        global_chunk_x == region_pos[1] * REGION_W + x
        global_chunk_z == region_pos[2] * REGION_W + z
        s == file.slot[<<x, z>>]
    IN  IF OutOfBounds(global_chunk_x, global_chunk_z,
                       min_chunk_pos, max_chunk_pos)
        THEN [st EXCEPT !.k = @ + 1]
        ELSE IF s.kind = "unreadable" THEN [st EXCEPT !.result = "panic"]
        ELSE IF s.kind \in {"absent", "corrupt"} THEN [st EXCEPT !.k = @ + 1]
        ELSE [st EXCEPT !.k = @ + 1,
                        !.w = StoreChunk(@, <<global_chunk_x, global_chunk_z>>,
                                         s.block)]

\* A variant of Slot that returns an error on an unallocated slot.
SlotAbsentFails(st, region_pos, min_chunk_pos, max_chunk_pos, file) ==
    LET x == SlotAt(st.k)[1]
        z == SlotAt(st.k)[2]
        global_chunk_x == region_pos[1] * REGION_W + x
        global_chunk_z == region_pos[2] * REGION_W + z
        s == file.slot[<<x, z>>]
    IN  IF OutOfBounds(global_chunk_x, global_chunk_z,
                       min_chunk_pos, max_chunk_pos)
        THEN [st EXCEPT !.k = @ + 1]
        ELSE IF s.kind = "unreadable" THEN [st EXCEPT !.result = "panic"]
        ELSE IF s.kind \in {"absent", "corrupt"} THEN [st EXCEPT !.result = "err"]
        ELSE [st EXCEPT !.k = @ + 1,
                        !.w = StoreChunk(@, <<global_chunk_x, global_chunk_z>>,
                                         s.block)]

\* Lines 87-167: one iteration of the slot loop; st is the state of the loop
\* before it: the world, the slot index k (x = k div REGION_W outer,
\* z = k mod REGION_W inner) and whether the call is still running.
Slot(st, region_pos, min_chunk_pos, max_chunk_pos, file) ==
    LET x == SlotAt(st.k)[1]
        z == SlotAt(st.k)[2]
        global_chunk_x == region_pos[1] * REGION_W + x
        global_chunk_z == region_pos[2] * REGION_W + z
        s == file.slot[<<x, z>>]
    IN  IF OutOfBounds(global_chunk_x, global_chunk_z,
                       min_chunk_pos, max_chunk_pos)
        THEN [st EXCEPT !.k = @ + 1]
        ELSE IF s.kind = "unreadable" THEN [st EXCEPT !.result = "panic"]
        ELSE IF s.kind = "absent" THEN [st EXCEPT !.k = @ + 1]
        ELSE IF s.kind = "corrupt" THEN [st EXCEPT !.result = "err"]
        ELSE [st EXCEPT !.k = @ + 1,
                        !.w = StoreChunk(@, <<global_chunk_x, global_chunk_z>>,
                                         s.block)]

\* Lines 85-171: the slot loop, from the state st on, and the final Ok(()).
RECURSIVE SlotLoop(_, _, _, _, _)
SlotLoop(st, region_pos, min_chunk_pos, max_chunk_pos, file) ==
    IF st.result # "running" THEN st
    ELSE IF st.k >= NSlots THEN [st EXCEPT !.result = "ok"]
    ELSE SlotLoop(Slot(st, region_pos, min_chunk_pos, max_chunk_pos, file),
                  region_pos, min_chunk_pos, max_chunk_pos, file)

\* A variant of ReadRegion that takes bytes that do not parse for a region
\* with no chunk.
ReadRegionLenient(w, region_pos, min_chunk_pos, max_chunk_pos, file) ==
    IF ~file.parses THEN [w |-> w, result |-> "ok", k |-> 0]
    ELSE SlotLoop([w |-> w, result |-> "running", k |-> 0],
                  region_pos, min_chunk_pos, max_chunk_pos, file)

\* Lines 69-172.
ReadRegion(w, region_pos, min_chunk_pos, max_chunk_pos, file) ==
    IF ~file.parses THEN [w |-> w, result |-> "err", k |-> 0]
    ELSE SlotLoop([w |-> w, result |-> "running", k |-> 0],
                  region_pos, min_chunk_pos, max_chunk_pos, file)

\* The call returns (or aborts): the world is what the call left.
Returned(r) ==
    /\ palette_index' = r.w.palette_index
    /\ palette' = r.w.palette
    /\ chunks' = r.w.chunks
    /\ result' = r.result

\* Lines 85-167, as a record of what was decoded: the chunk that line 123
\* decoded for each coordinate the call inserted at, on top of those of the
\* earlier calls. The call inserts for the slots within the bounds that hold a
\* well-formed chunk, up to the first slot at which it ends.
IngestedBy(ing, region_pos, min_chunk_pos, max_chunk_pos, file) ==
    LET At(k) == <<region_pos[1] * REGION_W + SlotAt(k)[1],
                   region_pos[2] * REGION_W + SlotAt(k)[2]>>
        Visits(k) == ~OutOfBounds(At(k)[1], At(k)[2], min_chunk_pos, max_chunk_pos)
        Stops(k) == Visits(k) /\ file.slot[SlotAt(k)].kind \in {"corrupt", "unreadable"}
        done == {k \in 0 .. NSlots - 1 :
                    /\ Visits(k) /\ file.slot[SlotAt(k)].kind = "chunk"
                    /\ \A j \in 0 .. k - 1 : ~Stops(j)}
    IN  IF ~file.parses THEN ing
        ELSE [pos \in DOMAIN ing \cup {At(k) : k \in done} |->
                IF \E k \in done : At(k) = pos
                THEN file.slot[SlotAt(CHOOSE k \in done : At(k) = pos)].block
                ELSE ing[pos]]

read_region ==
    /\ calls < MaxCalls
    /\ result # "panic"
    /\ \E a \in ReadArgs :
         /\ Returned(ReadRegion(World(palette_index, palette, chunks),
                                a[1], a[2][1], a[2][2], Bytes(a[3])))
         /\ call' = [op |-> "read_region", region_pos |-> a[1],
                     min_chunk_pos |-> a[2][1], max_chunk_pos |-> a[2][2],
                     file |-> a[3]]
         /\ ingested' = IngestedBy(ingested, a[1], a[2][1], a[2][2], Bytes(a[3]))
    /\ before' = World(palette_index, palette, chunks)
    /\ calls' = calls + 1
    /\ UNCHANGED <<terrain, written>>

\* ----------------------------------------------------------------- convert
\* glob_match::glob_match(pattern, name) for patterns made of literal
\* characters, `?` (one character) and `*` (any run of characters); neither
\* wildcard matches the path separator `/`. The whole name must match.
RECURSIVE GlobFrom(_, _, _, _)
GlobFrom(glob, path, i, j) ==
    IF i > Len(glob) THEN j > Len(path)
    ELSE IF glob[i] = "*"
    THEN \/ GlobFrom(glob, path, i + 1, j)
         \/ (j <= Len(path) /\ path[j] # "/" /\ GlobFrom(glob, path, i, j + 1))
    ELSE /\ j <= Len(path)
         /\ (glob[i] = path[j] \/ (glob[i] = "?" /\ path[j] # "/"))
         /\ GlobFrom(glob, path, i + 1, j + 1)

GlobMatch(glob, path) == GlobFrom(glob, path, 1, 1)

\* format!("{}", n) for an i32: decimal digits, `-` in front of a negative one.
Digits == <<"0", "1", "2", "3", "4", "5", "6", "7", "8", "9">>
RECURSIVE FmtNat(_)
FmtNat(n) ==
    IF n < 10 THEN <<Digits[n + 1]>>
    ELSE FmtNat(n \div 10) \o <<Digits[(n % 10) + 1]>>
FmtInt(n) == IF n < 0 THEN <<"-">> \o FmtNat(-n) ELSE FmtNat(n)

\* Lines 231-236 and 302-307: format!("{},{},{}", dx, dy, dz).
Key(dx, dy, dz) == FmtInt(dx) \o <<",">> \o FmtInt(dy) \o <<",">> \o FmtInt(dz)

\* i32 division by 2 (rounds toward zero).
Half(n) == IF n >= 0 THEN n \div 2 ELSE -((-n) \div 2)

\* A variant of ChunkOfBlock that divides rounding toward zero.
ChunkOfBlockTruncating(n) == IF n >= 0 THEN n \div CHUNK_W ELSE -((-n) \div CHUNK_W)

\* `>> 4` on an i32 block coordinate: the chunk the coordinate lies in (floor
\* division by the chunk edge).
ChunkOfBlock(n) == n \div CHUNK_W

\* Line 182: serde_wasm_bindgen::from_value into HashMap<String, u16>. The
\* value handed in is a sequence of <<pattern, number>> in the order the
\* caller's object lists them; it deserializes when every number is a u16.
Deserializes(rules) == \A n \in 1 .. Len(rules) : rules[n][2] \in 0 .. U16_MOD - 1

\* The orders in which rules.iter() can visit the entries of the HashMap:
\* the hash order, which the order of insertion does not determine.
IterOrders(rules) ==
    { [n \in 1 .. Len(rules) |-> rules[f[n]]] :
        f \in { g \in [1 .. Len(rules) -> 1 .. Len(rules)] :
                  \A m, n \in 1 .. Len(rules) : m # n => g[m] # g[n] } }

\* Lines 227-244 and 298-315: the target id of the first rule, in iteration
\* order from the n-th on, whose pattern matches the block name.
RECURSIVE FirstMatch(_, _, _)
FirstMatch(iter, block, n) ==
    IF n > Len(iter) THEN None
    ELSE IF GlobMatch(iter[n][1], block) THEN Some(iter[n][2])
    ELSE FirstMatch(iter, block, n + 1)

\* Lines 229-239 and 300-310: Reflect::set(&terrain, key, hytopia_id), when a
\* rule matches. `written` lists the sets made, each with the cell it is for.
SetBlock(cv, pos, key, hit) ==
    IF ~IsSome(hit) THEN [cv EXCEPT !.i = @ + 1]
    ELSE [cv EXCEPT !.i = @ + 1,
                    !.terrain = Put(@, key, Unwrap(hit)),
                    !.written = Append(@, [chunk |-> pos, i |-> cv.i, key |-> key,
                                           hytopia_id |-> Unwrap(hit)])]

\* A variant of IsInsideRegion without the upper bounds.
IsInsideRegionNoMax(min_pos, max_pos, x, y, z) ==
    /\ x >= min_pos[1]
    /\ y >= min_pos[2]
    /\ z >= min_pos[3]

\* Lines 189-196.
IsInsideRegion(min_pos, max_pos, x, y, z) ==
    /\ x >= min_pos[1] /\ x <= max_pos[1]
    /\ y >= min_pos[2] /\ y <= max_pos[2]
    /\ z >= min_pos[3] /\ z <= max_pos[3]

\* Lines 198-200.
BoundedSub(min_pos, max_pos) ==
    << min_pos[1] + Half(max_pos[1] - min_pos[1]),
       min_pos[2],
       min_pos[3] + Half(max_pos[3] - min_pos[3]) >>

\* Lines 208-244: one iteration of the cell loop of bounded mode, on the
\* chunk at pos; cv is the state of the loop (terrain, cell index i, result).
BoundedCell(cv, w, pos, min_pos, max_pos, iter) ==
    LET palette_id == w.chunks[pos][cv.i + 1]
        global_y == CellY(cv.i)
        global_x == pos[1] * CHUNK_W + CellX(cv.i)
        global_z == pos[2] * CHUNK_W + CellZ(cv.i)
        sub == BoundedSub(min_pos, max_pos)
    IN  IF ~IsInsideRegion(min_pos, max_pos, global_x, global_y, global_z)
        THEN [cv EXCEPT !.i = @ + 1]
        ELSE IF palette_id >= Len(w.palette) THEN [cv EXCEPT !.result = "panic"]
        ELSE IF w.palette[palette_id + 1] = Air THEN [cv EXCEPT !.i = @ + 1]
        ELSE SetBlock(cv, pos,
                      Key(global_x - sub[1], global_y - sub[2], global_z - sub[3]),
                      FirstMatch(iter, w.palette[palette_id + 1], 1))

\* Lines 274-275.
UnboundedSub(min_x, max_x, min_z, max_z) ==
    << min_x + Half(max_x - min_x), min_z + Half(max_z - min_z) >>

\* A variant of UnboundedCell without the test for air.
UnboundedCellKeepsAir(cv, w, pos, sub, iter) ==
    LET palette_id == w.chunks[pos][cv.i + 1]
        global_y == CellY(cv.i)
        global_x == pos[1] * CHUNK_W + CellX(cv.i)
        global_z == pos[2] * CHUNK_W + CellZ(cv.i)
    IN  IF palette_id >= Len(w.palette) THEN [cv EXCEPT !.result = "panic"]
        ELSE SetBlock(cv, pos,
                      Key(global_x - sub[1], global_y, global_z - sub[2]),
                      FirstMatch(iter, w.palette[palette_id + 1], 1))

\* Lines 283-316: one iteration of the cell loop of unbounded mode.
UnboundedCell(cv, w, pos, sub, iter) ==
    LET palette_id == w.chunks[pos][cv.i + 1]
        global_y == CellY(cv.i)
        global_x == pos[1] * CHUNK_W + CellX(cv.i)
        global_z == pos[2] * CHUNK_W + CellZ(cv.i)
    IN  IF palette_id >= Len(w.palette) THEN [cv EXCEPT !.result = "panic"]
        ELSE IF w.palette[palette_id + 1] = Air THEN [cv EXCEPT !.i = @ + 1]
        ELSE SetBlock(cv, pos,
                      Key(global_x - sub[1], global_y, global_z - sub[2]),
                      FirstMatch(iter, w.palette[palette_id + 1], 1))

\* Lines 208-245: the cell loop of bounded mode on one chunk.
RECURSIVE BoundedCells(_, _, _, _, _, _)
BoundedCells(cv, w, pos, min_pos, max_pos, iter) ==
    IF cv.result # "running" \/ cv.i >= NCells THEN cv
    ELSE BoundedCells(BoundedCell(cv, w, pos, min_pos, max_pos, iter),
                      w, pos, min_pos, max_pos, iter)

\* Lines 283-316: the cell loop of unbounded mode on one chunk.
RECURSIVE UnboundedCells(_, _, _, _, _)
UnboundedCells(cv, w, pos, sub, iter) ==
    IF cv.result # "running" \/ cv.i >= NCells THEN cv
    ELSE UnboundedCells(UnboundedCell(cv, w, pos, sub, iter), w, pos, sub, iter)

\* The k-th pair (0-based) of the nested loops over x0 ..= x1 (outer) and
\* z0 ..= z1 (inner), and the number of pairs.
RangeSize(lo, hi) == IF hi >= lo THEN hi - lo + 1 ELSE 0
PairAt(x0, z0, z1, k) ==
    <<x0 + (k \div RangeSize(z0, z1)), z0 + (k % RangeSize(z0, z1))>>

\* Lines 202-247: the chunk loop of bounded mode; cv.k counts its iterations.
RECURSIVE BoundedChunks(_, _, _, _, _)
BoundedChunks(cv, w, min_pos, max_pos, iter) ==
    LET x0 == ChunkOfBlock(min_pos[1])
        x1 == ChunkOfBlock(max_pos[1])
        z0 == ChunkOfBlock(min_pos[3])
        z1 == ChunkOfBlock(max_pos[3])
        pos == PairAt(x0, z0, z1, cv.k)
    IN  IF cv.result # "running" \/ cv.k >= RangeSize(x0, x1) * RangeSize(z0, z1)
        THEN cv
        ELSE IF pos \notin DOMAIN w.chunks
        THEN BoundedChunks([cv EXCEPT !.k = @ + 1], w, min_pos, max_pos, iter)
        ELSE BoundedChunks(
                 [BoundedCells([cv EXCEPT !.i = 0], w, pos, min_pos, max_pos, iter)
                    EXCEPT !.k = @ + 1],
                 w, min_pos, max_pos, iter)

\* Lines 249-272: the least and greatest chunk x and chunk z over the keys.
MinOf(S) == CHOOSE m \in S : \A n \in S : m <= n
MaxOf(S) == CHOOSE m \in S : \A n \in S : m >= n
Extent(w) ==
    [min_x |-> MinOf({c[1] : c \in DOMAIN w.chunks}),
     max_x |-> MaxOf({c[1] : c \in DOMAIN w.chunks}),
     min_z |-> MinOf({c[2] : c \in DOMAIN w.chunks}),
     max_z |-> MaxOf({c[2] : c \in DOMAIN w.chunks})]

\* Lines 277-318: the chunk loop of unbounded mode.
RECURSIVE UnboundedChunks(_, _, _, _)
UnboundedChunks(cv, w, e, iter) ==
    LET pos == PairAt(e.min_x, e.min_z, e.max_z, cv.k)
        sub == UnboundedSub(e.min_x, e.max_x, e.min_z, e.max_z)
    IN  IF \/ cv.result # "running"
           \/ cv.k >= RangeSize(e.min_x, e.max_x) * RangeSize(e.min_z, e.max_z)
        THEN cv
        ELSE IF pos \notin DOMAIN w.chunks
        THEN UnboundedChunks([cv EXCEPT !.k = @ + 1], w, e, iter)
        ELSE UnboundedChunks(
                 [UnboundedCells([cv EXCEPT !.i = 0], w, pos, sub, iter)
                    EXCEPT !.k = @ + 1],
                 w, e, iter)

\* Line 321: Ok(terrain), unless the traversal aborted.
Finish(cv) == [cv EXCEPT !.result = IF @ = "running" THEN "ok" ELSE @]

\* A variant of Convert without the early return on an empty chunk store.
ConvertNoEarlyReturn(w, min_pos, max_pos, rules, iter) ==
    LET cv == [terrain |-> <<>>, written |-> <<>>, result |-> "running",
               k |-> 0, i |-> 0]
    IN  IF ~Deserializes(rules) THEN [cv EXCEPT !.result = "err"]
        ELSE IF IsSome(min_pos) /\ IsSome(max_pos)
        THEN Finish(BoundedChunks(cv, w, Unwrap(min_pos), Unwrap(max_pos), iter))
        ELSE IF DOMAIN w.chunks = {} THEN [cv EXCEPT !.result = "err"]
        ELSE Finish(UnboundedChunks(cv, w, Extent(w), iter))

\* A variant of Convert that runs in bounded mode as soon as one bound is
\* supplied, the missing bound taken to be the supplied one.
ConvertOneBound(w, min_pos, max_pos, rules, iter) ==
    LET cv == [terrain |-> <<>>, written |-> <<>>, result |-> "running",
               k |-> 0, i |-> 0]
        lo == IF IsSome(min_pos) THEN min_pos ELSE max_pos
        hi == IF IsSome(max_pos) THEN max_pos ELSE min_pos
    IN  IF ~Deserializes(rules) THEN [cv EXCEPT !.result = "err"]
        ELSE IF DOMAIN w.chunks = {} THEN Finish(cv)
        ELSE IF IsSome(lo)
        THEN Finish(BoundedChunks(cv, w, Unwrap(lo), Unwrap(hi), iter))
        ELSE Finish(UnboundedChunks(cv, w, Extent(w), iter))

\* Lines 175-322. iter is the order in which the HashMap yields the rules.
\* In unbounded mode min_by_key and max_by_key find nothing among no keys,
\* and ok_or(..)? returns the error (lines 249-272).
Convert(w, min_pos, max_pos, rules, iter) ==
    LET cv == [terrain |-> <<>>, written |-> <<>>, result |-> "running",
               k |-> 0, i |-> 0]
    IN  IF ~Deserializes(rules) THEN [cv EXCEPT !.result = "err"]
        ELSE IF DOMAIN w.chunks = {} THEN Finish(cv)
        ELSE IF IsSome(min_pos) /\ IsSome(max_pos)
        THEN Finish(BoundedChunks(cv, w, Unwrap(min_pos), Unwrap(max_pos), iter))
        ELSE IF DOMAIN w.chunks = {} THEN [cv EXCEPT !.result = "err"]
        ELSE Finish(UnboundedChunks(cv, w, Extent(w), iter))

\* What the caller of convert gets: the terrain object, or nothing.
Converted(cv) ==
    /\ result' = cv.result
    /\ terrain' = IF cv.result = "ok" THEN cv.terrain ELSE <<>>
    /\ written' = IF cv.result = "ok" THEN cv.written ELSE <<>>

Star == <<"*">>
AnyMinecraft == NS \o <<"*">>
StoneLike == NS \o <<"s", "?", "o", "n", "e">>

OnlyStone == <<<<Stone, 3>>>>
Overlap == <<<<AnyMinecraft, 1>>, <<Stone, 2>>>>
StarAir == <<<<Star, 3>>, <<Air, 1>>>>
Wildcard == <<<<StoneLike, 2>>, <<Dirt, 0>>>>
TooBig == <<<<Stone, U16_MOD>>>>

Box(a, b) == <<Some(a), Some(b)>>
\* The arguments of convert: <<min_pos, max_pos>> and the rules.
ConvertArgs ==
    ({NoBounds} \X {<<>>, OnlyStone, Overlap, StarAir, Wildcard, TooBig})
    \cup ({<<Some(<<0, 0, 0>>), None>>, <<None, Some(<<0, 0, 0>>)>>} \X {OnlyStone})
    \cup ({Box(<<0, 0, 0>>, <<1, 1, 1>>), Box(<<-3, 0, 0>>, <<2, 1, 1>>),
           Box(<<1, 1, 0>>, <<1, 1, 3>>), Box(<<2, 0, 0>>, <<0, 1, 0>>),
           Box(<<5, 0, 5>>, <<6, 1, 6>>)}
          \X {Overlap, StarAir})

convert ==
    /\ calls < MaxCalls
    /\ result # "panic"
    /\ \E a \in ConvertArgs :
         \E iter \in IterOrders(a[2]) :
            /\ Converted(Convert(World(palette_index, palette, chunks),
                                 a[1][1], a[1][2], a[2], iter))
            /\ call' = [op |-> "convert", min_pos |-> a[1][1], max_pos |-> a[1][2],
                        rules |-> a[2], iter |-> iter]
    /\ before' = World(palette_index, palette, chunks)
    /\ calls' = calls + 1
    /\ UNCHANGED <<palette_index, palette, chunks, ingested>>

Next == read_region \/ convert

Spec == Init /\ [][Next]_vars

\* ================================================================== claims
IsRead == call.op = "read_region"
IsConvert == call.op = "convert"

\* The name convert resolves for cell i of the stored chunk at pos.
NameAt(pos, i) == palette[chunks[pos][i + 1] + 1]

\* The global chunk coordinate of slot k of the region of the last read_region,
\* whether it lies within the bounds of that call, and what the file has there.
SlotChunk(k) ==
    <<call.region_pos[1] * REGION_W + SlotAt(k)[1],
      call.region_pos[2] * REGION_W + SlotAt(k)[2]>>
InBounds(k) ==
    /\ IsSome(call.min_chunk_pos) =>
          /\ SlotChunk(k)[1] >= Unwrap(call.min_chunk_pos)[1]
          /\ SlotChunk(k)[2] >= Unwrap(call.min_chunk_pos)[2]
    /\ IsSome(call.max_chunk_pos) =>
          /\ SlotChunk(k)[1] <= Unwrap(call.max_chunk_pos)[1]
          /\ SlotChunk(k)[2] <= Unwrap(call.max_chunk_pos)[2]
SlotKind(k) == Bytes(call.file).slot[SlotAt(k)].kind
SlotIndexes == 0 .. NSlots - 1

\* The entry of the chunk store at pos is as the last call found it.
Untouched(pos) ==
    /\ pos \in DOMAIN chunks <=> pos \in DOMAIN before.chunks
    /\ pos \in DOMAIN chunks => chunks[pos] = before.chunks[pos]

\* Reading a decimal integer and an output key back.
DigitValue(c) == CHOOSE d \in 0 .. 9 : Digits[d + 1] = c
RECURSIVE ParseNat(_)
ParseNat(t) ==
    IF Len(t) = 0 THEN 0
    ELSE 10 * ParseNat(SubSeq(t, 1, Len(t) - 1)) + DigitValue(t[Len(t)])
ParseInt(t) == IF t[1] = "-" THEN -ParseNat(Tail(t)) ELSE ParseNat(t)
Commas(key) == {n \in 1 .. Len(key) : key[n] = ","}
ParseKey(key) ==
    LET c1 == CHOOSE n \in Commas(key) : \A m \in Commas(key) : n <= m
        c2 == CHOOSE n \in Commas(key) : \A m \in Commas(key) : n >= m
    IN <<ParseInt(SubSeq(key, 1, c1 - 1)),
         ParseInt(SubSeq(key, c1 + 1, c2 - 1)),
         ParseInt(SubSeq(key, c2 + 1, Len(key)))>>

\* ---------------------------------------------------------------------- C1
\* C1 (as claimed): after any sequence of read_region calls the palette is a
\* bijection between the names seen and the ids 0 .. N-1: palette_index[name]
\* is i exactly when palette[i] is name.
C1_PaletteBijection ==
    /\ DOMAIN palette_index = {palette[n] : n \in 1 .. Len(palette)}
    /\ \A n \in 1 .. Len(palette) : palette_index[palette[n]] = n - 1
    /\ \A m, n \in 1 .. Len(palette) : palette[m] = palette[n] => m = n

\* ---------------------------------------------------------------------- C2
\* C2 (as claimed): every target id convert writes is that of the first rule,
\* in the order the caller supplied the rules, whose pattern matches the name
\* of the cell.
C2_SuppliedOrderWins ==
    (IsConvert /\ result = "ok") =>
        \A n \in 1 .. Len(written) :
            Some(written[n].hytopia_id)
                = FirstMatch(call.rules, NameAt(written[n].chunk, written[n].i), 1)

\* ---------------------------------------------------------------------- C3
\* C3: in bounded convert every output key "dx,dy,dz", read back and moved by
\* (sub_x, sub_y, sub_z), is a coordinate within [min_pos, max_pos] on the
\* three axes.
C3_BoundedContainment ==
    (IsConvert /\ result = "ok" /\ IsSome(call.min_pos) /\ IsSome(call.max_pos)) =>
        LET lo == Unwrap(call.min_pos)
            hi == Unwrap(call.max_pos)
            sub_x == lo[1] + Half(hi[1] - lo[1])
            sub_y == lo[2]
            sub_z == lo[3] + Half(hi[3] - lo[3])
        IN \A key \in DOMAIN terrain :
              LET d == ParseKey(key)
              IN /\ lo[1] <= d[1] + sub_x /\ d[1] + sub_x <= hi[1]
                 /\ lo[2] <= d[2] + sub_y /\ d[2] + sub_y <= hi[2]
                 /\ lo[3] <= d[3] + sub_z /\ d[3] + sub_z <= hi[3]

\* A bounded convert over negative coordinates wrote blocks, one of them
\* left of the origin of the output and one above its floor.
C3_Witness ==
    /\ IsConvert /\ result = "ok"
    /\ call.min_pos = Some(<<-3, 0, 0>>) /\ call.max_pos = Some(<<2, 1, 1>>)
    /\ \E k1, k2 \in DOMAIN terrain : ParseKey(k1)[1] < 0 /\ ParseKey(k2)[2] > 0

\* ---------------------------------------------------------------------- C4
\* C4: in both modes no output entry comes from a cell whose palette id
\* resolves to "minecraft:air", whatever the rules; every key of the output
\* is one that was set for such a cell.
C4_AirExcluded ==
    (IsConvert /\ result = "ok") =>
        /\ \A n \in 1 .. Len(written) :
              NameAt(written[n].chunk, written[n].i) # Air
        /\ DOMAIN terrain = {written[n].key : n \in 1 .. Len(written)}

\* A convert whose rules match air ("*") ran over a chunk that has air cells
\* and wrote other cells.
C4_Witness ==
    /\ IsConvert /\ result = "ok" /\ call.rules = StarAir
    /\ Len(written) > 0
    /\ \E pos \in DOMAIN chunks : \E i \in 0 .. NCells - 1 :
          chunks[pos][i + 1] < Len(palette) /\ NameAt(pos, i) = Air

\* ---------------------------------------------------------------------- C5
\* The array read_region builds from a decoded chunk: the id of the name where
\* the chunk has a block, the array default elsewhere.
Expected(block) ==
    [n \in 1 .. NCells |->
        LET b == block[<<CellX(n - 1), CellY(n - 1), CellZ(n - 1)>>]
        IN IF IsSome(b) THEN palette_index[Unwrap(b)] ELSE 0]

Allocated(k) == SlotKind(k) # "absent"

\* C5: a read_region that completes without error creates or overwrites the
\* entry of chunk region_pos*32 + (x,z) exactly when slot (x,z) is allocated
\* and the chunk lies within the bounds on both axes; every other entry of
\* the chunk store, in or out of the region, is as it was.
C5_BoundFiltering ==
    (IsRead /\ result = "ok") =>
        /\ \A k \in SlotIndexes :
              IF InBounds(k) /\ Allocated(k)
              THEN /\ SlotChunk(k) \in DOMAIN chunks
                   /\ chunks[SlotChunk(k)]
                        = Expected(Bytes(call.file).slot[SlotAt(k)].block)
              ELSE Untouched(SlotChunk(k))
        /\ \A pos \in DOMAIN chunks \cup DOMAIN before.chunks :
              (\A k \in SlotIndexes : pos # SlotChunk(k)) => Untouched(pos)

\* A read with min_chunk_pos = (1,0) on region (0,0) stored the chunks of
\* x = 1 and left those of x = 0 absent.
C5_Witness ==
    /\ IsRead /\ result = "ok" /\ call.file = "full"
    /\ call.region_pos = <<0, 0>> /\ call.min_chunk_pos = Some(<<1, 0>>)
    /\ <<1, 0>> \in DOMAIN chunks /\ <<1, 1>> \in DOMAIN chunks
    /\ <<0, 0>> \notin DOMAIN chunks /\ <<0, 1>> \notin DOMAIN chunks

\* ---------------------------------------------------------------------- C6
\* Slot k was decoded and stored by the last read_region: it is within the
\* bounds, holds a well-formed chunk, and no slot before it ended the call.
Ends(k) == InBounds(k) /\ SlotKind(k) \in {"corrupt", "unreadable"}
Processed(k) ==
    /\ InBounds(k) /\ SlotKind(k) = "chunk"
    /\ \A j \in 0 .. k - 1 : ~Ends(j)

\* C6: a chunk coordinate that was in the chunk store and is ingested again
\* holds, in every cell, the value of the new payload alone: the id of the
\* newly resolved name, or the array default where the payload has no block.
C6_Overwrite ==
    (IsRead /\ Bytes(call.file).parses) =>
        \A k \in SlotIndexes :
            (Processed(k) /\ SlotChunk(k) \in DOMAIN before.chunks) =>
                \A i \in 0 .. NCells - 1 :
                    LET b == Bytes(call.file).slot[SlotAt(k)].block
                                [<<CellX(i), CellY(i), CellZ(i)>>]
                    IN chunks[SlotChunk(k)][i + 1]
                          = IF IsSome(b) THEN palette_index[Unwrap(b)] ELSE 0

\* Chunk (0,0) held a nonzero id in a cell for which the payload ingested
\* over it has no block.
C6_Witness ==
    /\ IsRead /\ Bytes(call.file).parses /\ Processed(0)
    /\ SlotChunk(0) \in DOMAIN before.chunks
    /\ \E i \in 0 .. NCells - 1 :
          /\ before.chunks[SlotChunk(0)][i + 1] # 0
          /\ ~IsSome(Bytes(call.file).slot[SlotAt(0)].block
                        [<<CellX(i), CellY(i), CellZ(i)>>])
          /\ chunks[SlotChunk(0)][i + 1] = 0

\* ---------------------------------------------------------------------- C7
\* The first slot, in iteration order, that ends the last read_region.
FirstEnd == CHOOSE k \in SlotIndexes : Ends(k) /\ \A j \in 0 .. k - 1 : ~Ends(j)

\* The file with slot k and the slots after it unallocated.
Upto(file, k) ==
    RegionFile([s \in Slots |->
        IF s[1] * REGION_W + s[2] < k THEN file.slot[s] ELSE Absent])

\* C7: when the decode of a present payload fails, read_region returns an
\* error; the chunks processed before it are in the chunk store, the failing
\* chunk and those after it have no effect on the chunk store, and the world
\* is the one that ingesting the slots before the failing one alone leaves.
C7_NoRollback ==
    (/\ IsRead /\ Bytes(call.file).parses
     /\ \E k \in SlotIndexes : Ends(k)
     /\ SlotKind(FirstEnd) = "corrupt") =>
        /\ result = "err"
        /\ \A k \in SlotIndexes :
              IF k < FirstEnd /\ Processed(k)
              THEN /\ SlotChunk(k) \in DOMAIN chunks
                   /\ chunks[SlotChunk(k)]
                        = Expected(Bytes(call.file).slot[SlotAt(k)].block)
              ELSE Untouched(SlotChunk(k))
        /\ World(palette_index, palette, chunks)
             = ReadRegion(before, call.region_pos, call.min_chunk_pos,
                          call.max_chunk_pos, Upto(Bytes(call.file), FirstEnd)).w

\* The corrupt slot (0,1) ended a read of region (0,0) after chunk (0,0) was
\* stored with its names, and before chunk (1,0) was.
C7_Witness ==
    /\ IsRead /\ call.file = "corrupt" /\ call.region_pos = <<0, 0>>
    /\ call.min_chunk_pos = None /\ call.max_chunk_pos = None
    /\ result = "err"
    /\ <<0, 0>> \in DOMAIN chunks /\ <<0, 0>> \notin DOMAIN before.chunks
    /\ Len(palette) > Len(before.palette)
    /\ <<1, 0>> \notin DOMAIN chunks

\* ---------------------------------------------------------------------- C8
\* C8 (as claimed): convert on a world whose chunk store is empty returns an
\* empty mapping and never an error, whatever min_pos, max_pos and rules are.
C8_EmptyWorldNeverFails ==
    (IsConvert /\ DOMAIN before.chunks = {}) =>
        (result = "ok" /\ DOMAIN terrain = {})

\* C8 (amended): on a world whose chunk store is empty, convert returns an
\* empty mapping for every min_pos and max_pos when the rules deserialize, and
\* the error of the rules when they do not.
C8_EmptyWorld ==
    (IsConvert /\ DOMAIN before.chunks = {}) =>
        IF Deserializes(call.rules)
        THEN result = "ok" /\ DOMAIN terrain = {}
        ELSE result = "err"

\* convert ran in unbounded mode, with rules that deserialize, on an empty
\* chunk store.
C8_Witness ==
    /\ IsConvert /\ DOMAIN chunks = {} /\ call.rules = OnlyStone
    /\ call.min_pos = None /\ call.max_pos = None
    /\ result = "ok"

\* ---------------------------------------------------------------------- C9
\* C9: an unallocated slot is skipped: its chunk store entry is as it was, the
\* slots after it are still processed, and a region whose slots within the
\* bounds are all unallocated leaves the world unchanged and succeeds.
C9_AbsentSkipped ==
    (IsRead /\ Bytes(call.file).parses) =>
        /\ \A k \in SlotIndexes :
              /\ (InBounds(k) /\ ~Allocated(k)) => Untouched(SlotChunk(k))
              /\ Processed(k) => SlotChunk(k) \in DOMAIN chunks
        /\ (\A k \in SlotIndexes : ~Ends(k)) => result = "ok"
        /\ (\A k \in SlotIndexes : InBounds(k) => ~Allocated(k)) =>
              /\ result = "ok"
              /\ World(palette_index, palette, chunks) = before

\* Of region (0,0), slot (0,1) is unallocated: the call succeeded, chunk (0,1)
\* is absent and the chunks of the slots after it are stored.
C9_Witness ==
    /\ IsRead /\ call.file = "gap" /\ call.region_pos = <<0, 0>>
    /\ call.min_chunk_pos = None /\ call.max_chunk_pos = None
    /\ result = "ok"
    /\ <<0, 1>> \notin DOMAIN chunks
    /\ <<1, 0>> \in DOMAIN chunks /\ <<1, 1>> \in DOMAIN chunks

\* --------------------------------------------------------------------- C10
\* The first call ingested, from region (0,0), the single chunk (0,0) with
\* stone at local (0,0,0) and air in every other cell.
StoneCornerIngested ==
    /\ calls = 1 /\ IsRead /\ call.file = "stone_corner"
    /\ call.region_pos = <<0, 0>> /\ result = "ok"
    /\ <<0, 0>> \in DOMAIN chunks

\* C10 (as claimed): the palette is then ["minecraft:air", "minecraft:stone"].
C10_AirFirst == StoneCornerIngested => palette = <<Air, Stone>>

\* C10 (amended): the palette is then ["minecraft:stone", "minecraft:air"] in
\* discovery order: stone, the block of cell index 0, has id 0 and air id 1.
C10_StoneFirst ==
    StoneCornerIngested =>
        /\ palette = <<Stone, Air>>
        /\ palette_index[Stone] = 0 /\ palette_index[Air] = 1
        /\ chunks[<<0, 0>>] = [n \in 1 .. NCells |-> IF n = 1 THEN 0 ELSE 1]

C10_Witness == StoneCornerIngested /\ Len(palette) = 2

\* --------------------------------------------------------------------- C11
\* The last convert ran in unbounded mode (a bound is missing).
IsUnbounded == IsConvert /\ ~(IsSome(call.min_pos) /\ IsSome(call.max_pos))
IsBounded == IsConvert /\ IsSome(call.min_pos) /\ IsSome(call.max_pos)

\* Some rule of the last convert matches the name.
Matches(name) == \E n \in 1 .. Len(call.rules) : GlobMatch(call.rules[n][1], name)

\* The keys C11 lists: one per stored chunk and cell that was ingested with a
\* name other than air that a rule matches, at the global x and z less the
\* origin over the stored chunk coordinates, and the y as it is.
UnboundedKeys ==
    LET e == Extent(before)
        sub_x == e.min_x + Half(e.max_x - e.min_x)
        sub_z == e.min_z + Half(e.max_z - e.min_z)
    IN UNION { { Key(pos[1] * CHUNK_W + l[1] - sub_x, l[2],
                     pos[2] * CHUNK_W + l[3] - sub_z) :
                 l \in { m \in Locals : /\ IsSome(ingested[pos][m])
                                        /\ Unwrap(ingested[pos][m]) # Air
                                        /\ Matches(Unwrap(ingested[pos][m])) } } :
               pos \in DOMAIN before.chunks }

\* C11 (as claimed): unbounded convert on a non-empty world outputs exactly
\* the keys of the ingested cells whose name is not air and matches a rule,
\* with y not offset; a world holding only chunk (0,0) with stone at local
\* (0,0,0) and air elsewhere, converted with the one rule for stone, yields
\* exactly the entry at "0,0,0".
C11_UnboundedExact ==
    (IsUnbounded /\ DOMAIN before.chunks # {} /\ Deserializes(call.rules)) =>
        /\ result = "ok"
        /\ DOMAIN terrain = UnboundedKeys
        /\ (/\ DOMAIN before.chunks = {<<0, 0>>}
            /\ ingested[<<0, 0>>] = StoneCorner
            /\ call.rules = OnlyStone) => terrain = (Key(0, 0, 0) :> 3)

\* --------------------------------------------------------------------- C12
\* C12: after every call, those that return an error included, each
\* coordinate the call found in the chunk store (before) is still in it, and
\* a convert leaves the chunk store and the palette as it found them.
C12_NeverRemoved ==
    /\ DOMAIN before.chunks \subseteq DOMAIN chunks
    /\ IsConvert => World(palette_index, palette, chunks) = before

\* A read_region that returned an error on a world that had chunks: they are
\* all still stored, next to the one the call added before it failed.
C12_Witness ==
    /\ IsRead /\ result = "err"
    /\ DOMAIN before.chunks # {}
    /\ DOMAIN before.chunks \subseteq DOMAIN chunks
    /\ DOMAIN before.chunks # DOMAIN chunks

\* --------------------------------------------------------------------- C13
\* C13: when the bytes do not parse as a region container, read_region
\* returns an error and the palette and the chunk store are as the call found
\* them.
C13_ContainerFailure ==
    (IsRead /\ ~Bytes(call.file).parses) =>
        /\ result = "err"
        /\ World(palette_index, palette, chunks) = before

\* read_region was given bytes that do not parse, on a world that had chunks
\* and names.
C13_Witness ==
    /\ IsRead /\ call.file = "garbage" /\ result = "err"
    /\ DOMAIN chunks # {} /\ Len(palette) > 0

\* --------------------------------------------------------------------- C14
\* C14 (as claimed): every stored array has one cell per block of the chunk,
\* every cell value is an id of the palette (less than its size), chunks with
\* no resolvable block included, and convert never aborts on the lookup of a
\* cell's name.
C14_ValidIds ==
    /\ \A pos \in DOMAIN chunks :
          /\ Len(chunks[pos]) = NCells
          /\ \A i \in 1 .. NCells : chunks[pos][i] < Len(palette)
    /\ IsConvert => result # "panic"

\* --------------------------------------------------------------------- C15
\* The global block coordinate of cell i of the chunk at pos.
GlobalOf(pos, i) == <<pos[1] * CHUNK_W + CellX(i), CellY(i), pos[2] * CHUNK_W + CellZ(i)>>

\* The cells of the stored chunks that lie within the box of the last convert.
InBox(pos, i) ==
    LET g == GlobalOf(pos, i)
        lo == Unwrap(call.min_pos)
        hi == Unwrap(call.max_pos)
    IN \A n \in 1 .. 3 : lo[n] <= g[n] /\ g[n] <= hi[n]

\* C15: bounded convert is complete over the box, negative coordinates
\* included: every cell of a stored chunk that lies within [min_pos, max_pos]
\* and whose stored id resolves to a name that is not air and that a rule
\* matches has an entry at key "(gx-sub_x),(gy-min_pos.y),(gz-sub_z)"; chunks
\* of the range that are not stored are passed over without error, and a box
\* that holds no cell of a stored chunk yields the empty output.
C15_BoundedComplete ==
    IsBounded =>
        LET lo == Unwrap(call.min_pos)
            hi == Unwrap(call.max_pos)
            sub_x == lo[1] + Half(hi[1] - lo[1])
            sub_z == lo[3] + Half(hi[3] - lo[3])
        IN /\ result = "ok" =>
                \A pos \in DOMAIN chunks : \A i \in 0 .. NCells - 1 :
                    (/\ InBox(pos, i)
                     /\ chunks[pos][i + 1] < Len(palette)
                     /\ NameAt(pos, i) # Air
                     /\ Matches(NameAt(pos, i))) =>
                        Key(GlobalOf(pos, i)[1] - sub_x, GlobalOf(pos, i)[2] - lo[2],
                            GlobalOf(pos, i)[3] - sub_z) \in DOMAIN terrain
           /\ (/\ Deserializes(call.rules)
               /\ \A pos \in DOMAIN chunks : \A i \in 0 .. NCells - 1 : ~InBox(pos, i)) =>
                  (result = "ok" /\ DOMAIN terrain = {})

\* A bounded convert over the box (-3,0,0)..(2,1,1) wrote the block at global
\* x = -3, a cell of chunk -2, while a chunk of the range is not stored.
C15_Witness ==
    /\ IsBounded /\ result = "ok"
    /\ call.min_pos = Some(<<-3, 0, 0>>) /\ call.max_pos = Some(<<2, 1, 1>>)
    /\ <<-2, 0>> \in DOMAIN chunks /\ <<0, 0>> \notin DOMAIN chunks
    /\ Key(-2, 0, 0) \in DOMAIN terrain

\* --------------------------------------------------------------------- C16
\* C16: convert runs in bounded mode only when both bounds are supplied. With
\* exactly one of them, the result is that of the same call with neither: the
\* unbounded output, over every stored chunk and every y.
C16_OneBoundIgnored ==
    (IsConvert /\ IsSome(call.min_pos) # IsSome(call.max_pos)) =>
        LET r == Convert(before, None, None, call.rules, call.iter)
            e == Extent(before)
            sub_x == e.min_x + Half(e.max_x - e.min_x)
            sub_z == e.min_z + Half(e.max_z - e.min_z)
        IN /\ result = r.result
           /\ terrain = IF r.result = "ok" THEN r.terrain ELSE <<>>
           /\ result = "ok" =>
                \A pos \in DOMAIN chunks : \A i \in 0 .. NCells - 1 :
                    (NameAt(pos, i) # Air /\ Matches(NameAt(pos, i))) =>
                        Key(GlobalOf(pos, i)[1] - sub_x, GlobalOf(pos, i)[2],
                            GlobalOf(pos, i)[3] - sub_z) \in DOMAIN terrain

\* convert was given min_pos = (0,0,0) and no max_pos, and wrote blocks at
\* other coordinates than (0,0,0), one of them above y = 0.
C16_Witness ==
    /\ IsConvert /\ result = "ok"
    /\ call.min_pos = Some(<<0, 0, 0>>) /\ call.max_pos = None
    /\ \E key \in DOMAIN terrain : ParseKey(key)[2] > 0

\* --------------------------------------------------------------------- C17
\* C17 (as claimed): every failure of the codec on a slot within the bounds,
\* in extracting the payload or in decoding it, is the error result of
\* read_region; none makes read_region abort.
C17_CodecFailuresReturned ==
    (IsRead /\ Bytes(call.file).parses) =>
        /\ result # "panic"
        /\ (\E k \in SlotIndexes : Ends(k)) => result = "err"

\* --------------------------------------------------------------------- C18
\* C18 (as claimed): convert writes no entry for a cell that had no
\* resolvable block when its chunk was ingested.
C18_UnresolvedNeverOutput ==
    (IsConvert /\ result = "ok") =>
        \A n \in 1 .. Len(written) :
            IsSome(ingested[written[n].chunk]
                     [<<CellX(written[n].i), CellY(written[n].i), CellZ(written[n].i)>>])

\* --------------------------------------------------------------------- C19
\* C19 (as claimed): in unbounded convert the origin (sub_x, sub_z) lies
\* within the extent of the stored chunks in block coordinates:
\* min_x*16 <= sub_x <= max_x*16+15, and the same on z.
C19_OriginInsideExtent ==
    (IsUnbounded /\ DOMAIN before.chunks # {}) =>
        LET e == Extent(before)
            sub == UnboundedSub(e.min_x, e.max_x, e.min_z, e.max_z)
        IN /\ e.min_x * CHUNK_W <= sub[1]
           /\ sub[1] <= e.max_x * CHUNK_W + (CHUNK_W - 1)
           /\ e.min_z * CHUNK_W <= sub[2]
           /\ sub[2] <= e.max_z * CHUNK_W + (CHUNK_W - 1)

\* --------------------------------------------------------------------- C20
\* C20 (as claimed): the id given to a name on its first occurrence is the
\* size of the registry before the insertion, whatever that size: no two
\* names have the same id.
C20_NoTruncation ==
    /\ \A n \in 1 .. Len(palette) : palette_index[palette[n]] = n - 1
    /\ \A a, b \in DOMAIN palette_index :
          a # b => palette_index[a] # palette_index[b]
====
